---- MODULE Spec2Model ----
(***************************************************************************)
(* Model of app.py: a table-tennis ELO tracker.  Three CSV stores          *)
(* (players, matches, pending) are shared by all browser sessions.  Every  *)
(* interaction of a session re-runs the whole script: it loads the three   *)
(* stores (lines 132-138), runs the handler of the pressed button on its   *)
(* private copies and writes the copies back with save_csv, one store per  *)
(* call.  Sessions interleave at the granularity of these file reads and   *)
(* writes.  Row indices are 1-based here (pandas: 0-based).                *)
(***************************************************************************)
EXTENDS Integers, Sequences, FiniteSets, TLC

\* ---------------------------------------------------------------- bounds
NumSessions == 2
MaxSubmits == 2
MaxRegistered == 2
NumNames == 3
MaxHistory == 2
MaxDatum == 2

Sessions == 1..NumSessions
AllNames == <<"A", "B", "C", "D">>
RegNames == {AllNames[i] : i \in 1..MaxRegistered}
ScoreChoices == {<<11, 8>>, <<8, 11>>, <<11, 11>>}

\* ------------------------------------------------------- program constants
StartElo == 1200
K == 32

VARIABLES
    playersFile,      \* players.csv: sequence of player rows
    matchesFile,      \* matches.csv: sequence of confirmed match rows
    pendingFile,      \* pending_matches.csv: sequence of pending rows
    pc,               \* per session: position of the running script, or "idle"
    event,            \* per session: the button press that started the run
    players,          \* per session: module-level table `players`
    matches,          \* per session: module-level table `matches`
    pending,          \* per session: module-level table `pending`
    logged_in,        \* per session: st.session_state.logged_in
    current_player,   \* per session: st.session_state.current_player
    view,             \* per session: rendered confirm/reject buttons, idx -> Datum shown
    clock,            \* datetime.now(): number of timestamps handed out so far
    promoted,         \* history: the pending rows promoted by a confirm handler
    rejected,         \* history: <<row, name>>: the pending rows dropped by name's reject handler
    loaded,           \* history, per session: the tables as the running handler found them
    consent,          \* history: <<Datum, name>>: name's own session set its flag
    serial,           \* TRUE: a script run starts only while no other run is under way
    arg_players,      \* function harness: the roster handed to the rating engine
    arg_matches,      \* function harness: the match history handed to it
    res_players,      \* function harness: <<rebuild_players(arg_players, arg_matches)>> once called
    res_history       \* function harness: player :> elo_history(player, arg_matches) once called

harness == <<arg_players, arg_matches, res_players, res_history>>

vars == <<playersFile, matchesFile, pendingFile, pc, event, players, matches,
          pending, logged_in, current_player, view, clock, promoted, rejected,
          loaded, consent, serial, harness>>

\* ------------------------------------------------------------ sequences
\* Mutant: drops the last row whatever the index.
RemoveAt_Last(seq, i) == SubSeq(seq, 1, Len(seq) - 1)

\* df.drop(i)
RemoveAt(seq, i) == [j \in 1..(Len(seq) - 1) |-> IF j < i THEN seq[j] ELSE seq[j + 1]]

\* ------------------------------------------------------------- calc_elo
\* round(32 / (1 + 10 ** (d / 400))) as a function of the integer rating
\* difference d = r_b - r_a: a decreasing step function, given by the largest
\* d at which it still reaches each value 1..32 (the float formula of line 30
\* evaluated at every integer d; it never lands on a rounding tie).
ExpectedSteps ==
    <<719, 523, 428, 364, 314, 273, 237, 205, 176, 149, 124, 100, 77, 54, 32, 10,
      -11, -33, -55, -78, -101, -125, -150, -177, -206, -238, -274, -315, -365,
      -429, -524, -720>>

Expected32(d) == Cardinality({i \in 1..Len(ExpectedSteps) : d <= ExpectedSteps[i]})

\* Mutant: the K-factor applied to the score only at half weight.
calc_elo_HalfK(r_a, r_b, score_a) == r_a + (K \div 2) * score_a - Expected32(r_b - r_a)

calc_elo(r_a, r_b, score_a) == r_a + K * score_a - Expected32(r_b - r_a)

\* ------------------------------------------------------- sort_values("Datum")
\* Ascending by Datum; rows with equal Datum keep their input order (for the
\* table sizes modelled, the default sort kind runs as an insertion sort).
RECURSIVE InsertByDatum(_, _)
InsertByDatum(sorted, row) ==
    IF sorted = <<>> THEN <<row>>
    ELSE IF sorted[Len(sorted)].Datum <= row.Datum THEN Append(sorted, row)
    ELSE Append(InsertByDatum(SubSeq(sorted, 1, Len(sorted) - 1), row), sorted[Len(sorted)])

\* Mutant: the rows are replayed in storage order, unsorted.
sort_values_Unsorted(df) == df

RECURSIVE sort_values(_)
sort_values(df) ==
    IF df = <<>> THEN <<>>
    ELSE InsertByDatum(sort_values(SubSeq(df, 1, Len(df) - 1)), df[Len(df)])

\* ------------------------------------------------------- rebuild_players
NamesOf(players_df) == {players_df[i].Name : i \in 1..Len(players_df)}

\* players_df.loc[players_df["Name"] == name, col].iat[0]: the first such row
FirstRow(players_df, name) ==
    players_df[CHOOSE i \in 1..Len(players_df) :
                  /\ players_df[i].Name = name
                  /\ \A j \in 1..(i - 1) : players_df[j].Name # name]

\* Mutant: the Spiele column is left out of the assignment.
SetStats_NoSpiele(players_df, name, elo, siege, niederlagen, spiele) ==
    [i \in 1..Len(players_df) |->
        IF players_df[i].Name = name
        THEN [players_df[i] EXCEPT !.ELO = elo, !.Siege = siege,
                                   !.Niederlagen = niederlagen]
        ELSE players_df[i]]

\* players_df.loc[players_df["Name"] == name, [ELO, Siege, Niederlagen, Spiele]] = [...]
SetStats(players_df, name, elo, siege, niederlagen, spiele) ==
    [i \in 1..Len(players_df) |->
        IF players_df[i].Name = name
        THEN [players_df[i] EXCEPT !.ELO = elo, !.Siege = siege,
                                   !.Niederlagen = niederlagen, !.Spiele = spiele]
        ELSE players_df[i]]

\* Mutant: only the rating is reset, the counters are kept.
ResetStats_EloOnly(players_df) ==
    [i \in 1..Len(players_df) |-> [players_df[i] EXCEPT !.ELO = StartElo]]

ResetStats(players_df) ==
    [i \in 1..Len(players_df) |->
        [players_df[i] EXCEPT !.ELO = StartElo, !.Siege = 0,
                              !.Niederlagen = 0, !.Spiele = 0]]

\* Mutant: a match is skipped only when both players are unknown; an unknown
\* opponent counts as a 1200-rated one.
ReplayRow_SkipsOnlyBothAbsent(players_df, row) ==
    LET known == NamesOf(players_df)
        score_a == IF row.PunkteA > row.PunkteB THEN 1 ELSE 0
        r_a == IF row.A \in known THEN FirstRow(players_df, row.A).ELO ELSE StartElo
        r_b == IF row.B \in known THEN FirstRow(players_df, row.B).ELO ELSE StartElo
        df1 == IF row.A \notin known THEN players_df
               ELSE LET rowA == FirstRow(players_df, row.A)
                    IN  SetStats(players_df, row.A, calc_elo(r_a, r_b, score_a),
                                 rowA.Siege + score_a, rowA.Niederlagen + 1 - score_a,
                                 rowA.Spiele + 1)
    IN  IF row.B \notin known THEN df1
        ELSE LET rowB == FirstRow(df1, row.B)
             IN  SetStats(df1, row.B, calc_elo(r_b, r_a, 1 - score_a),
                          rowB.Siege + 1 - score_a, rowB.Niederlagen + score_a,
                          rowB.Spiele + 1)

\* Mutant: B's new rating is computed from A's updated rating.
ReplayRow_UsesUpdatedA(players_df, row) ==
    LET a == row.A
        b == row.B
        pa == row.PunkteA
        pb == row.PunkteB
    IN  IF a \notin NamesOf(players_df) \/ b \notin NamesOf(players_df)
        THEN players_df
        ELSE LET r_a == FirstRow(players_df, a).ELO
                 r_b == FirstRow(players_df, b).ELO
                 score_a == IF pa > pb THEN 1 ELSE 0
                 score_b == 1 - score_a
                 new_r_a == calc_elo(r_a, r_b, score_a)
                 new_r_b == calc_elo(r_b, new_r_a, score_b)
                 rowA == FirstRow(players_df, a)
                 df1 == SetStats(players_df, a, new_r_a, rowA.Siege + score_a,
                                 rowA.Niederlagen + score_b, rowA.Spiele + 1)
                 rowB == FirstRow(df1, b)
             IN  SetStats(df1, b, new_r_b, rowB.Siege + score_b,
                          rowB.Niederlagen + score_a, rowB.Spiele + 1)

\* Mutant: equal points count as a win for A.
ReplayRow_TieIsWinForA(players_df, row) ==
    LET a == row.A
        b == row.B
        pa == row.PunkteA
        pb == row.PunkteB
    IN  IF a \notin NamesOf(players_df) \/ b \notin NamesOf(players_df)
        THEN players_df
        ELSE LET r_a == FirstRow(players_df, a).ELO
                 r_b == FirstRow(players_df, b).ELO
                 score_a == IF pa >= pb THEN 1 ELSE 0
                 score_b == 1 - score_a
                 new_r_a == calc_elo(r_a, r_b, score_a)
                 new_r_b == calc_elo(r_b, r_a, score_b)
                 rowA == FirstRow(players_df, a)
                 df1 == SetStats(players_df, a, new_r_a, rowA.Siege + score_a,
                                 rowA.Niederlagen + score_b, rowA.Spiele + 1)
                 rowB == FirstRow(df1, b)
             IN  SetStats(df1, b, new_r_b, rowB.Siege + score_b,
                          rowB.Niederlagen + score_a, rowB.Spiele + 1)

\* Mutant: the assignment to the row of B is left out.
ReplayRow_OnlyA(players_df, row) ==
    LET a == row.A
        b == row.B
        pa == row.PunkteA
        pb == row.PunkteB
    IN  IF a \notin NamesOf(players_df) \/ b \notin NamesOf(players_df)
        THEN players_df
        ELSE LET r_a == FirstRow(players_df, a).ELO
                 r_b == FirstRow(players_df, b).ELO
                 score_a == IF pa > pb THEN 1 ELSE 0
                 score_b == 1 - score_a
                 new_r_a == calc_elo(r_a, r_b, score_a)
                 new_r_b == calc_elo(r_b, r_a, score_b)
                 rowA == FirstRow(players_df, a)
                 df1 == SetStats(players_df, a, new_r_a, rowA.Siege + score_a,
                                 rowA.Niederlagen + score_b, rowA.Spiele + 1)
                 rowB == FirstRow(df1, b)
             IN  df1

\* One iteration of the loop of lines 66-94.
ReplayRow(players_df, row) ==
    LET a == row.A
        b == row.B
        pa == row.PunkteA
        pb == row.PunkteB
    IN  IF a \notin NamesOf(players_df) \/ b \notin NamesOf(players_df)
        THEN players_df
        ELSE LET r_a == FirstRow(players_df, a).ELO
                 r_b == FirstRow(players_df, b).ELO
                 score_a == IF pa > pb THEN 1 ELSE 0
                 score_b == 1 - score_a
                 new_r_a == calc_elo(r_a, r_b, score_a)
                 new_r_b == calc_elo(r_b, r_a, score_b)
                 rowA == FirstRow(players_df, a)
                 df1 == SetStats(players_df, a, new_r_a, rowA.Siege + score_a,
                                 rowA.Niederlagen + score_b, rowA.Spiele + 1)
                 rowB == FirstRow(df1, b)
             IN  SetStats(df1, b, new_r_b, rowB.Siege + score_b,
                          rowB.Niederlagen + score_a, rowB.Spiele + 1)

RECURSIVE Replay(_, _)
Replay(players_df, rows) ==
    IF rows = <<>> THEN players_df
    ELSE Replay(ReplayRow(players_df, Head(rows)), Tail(rows))

rebuild_players(players_df, matches_df) ==
    IF matches_df = <<>> THEN ResetStats(players_df)
    ELSE Replay(ResetStats(players_df), sort_values(matches_df))

\* ------------------------------------------------------------ elo_history
\* ratings.setdefault(name, 1200) followed by ratings[name]
RatingOf(ratings, name) == IF name \in DOMAIN ratings THEN ratings[name] ELSE StartElo

SetRating(ratings, name, r) ==
    [n \in (DOMAIN ratings) \cup {name} |-> IF n = name THEN r ELSE ratings[n]]

\* The loop of lines 106-127; st is the pair (ratings, history).
HistoryRow(st, player, row) ==
    LET a == row.A
        b == row.B
        ra == RatingOf(st.ratings, a)
        rb == RatingOf(SetRating(st.ratings, a, ra), b)
        score_a == IF row.PunkteA > row.PunkteB THEN 1 ELSE 0
        score_b == 1 - score_a
        new_ra == calc_elo(ra, rb, score_a)
        new_rb == calc_elo(rb, ra, score_b)
    IN  [ratings |-> SetRating(SetRating(st.ratings, a, new_ra), b, new_rb),
         history |-> IF a = player THEN Append(st.history, <<row.Datum, new_ra>>)
                     ELSE IF b = player THEN Append(st.history, <<row.Datum, new_rb>>)
                     ELSE st.history]

RECURSIVE HistoryLoop(_, _, _)
HistoryLoop(st, player, rows) ==
    IF rows = <<>> THEN st
    ELSE HistoryLoop(HistoryRow(st, player, Head(rows)), player, Tail(rows))

elo_history(player, matches_df) ==
    HistoryLoop([ratings |-> <<>>, history |-> <<>>], player, sort_values(matches_df)).history

\* ------------------------------------------------------------ the script
NoEvent == [kind |-> "none", name |-> "", pa |-> 0, pb |-> 0, idx |-> 0]

NoView == [i \in {} |-> 0]

NoTables == [players |-> <<>>, matches |-> <<>>, pending |-> <<>>]

Tables(s) == [players |-> players[s], matches |-> matches[s], pending |-> pending[s]]

MatchOf(row) ==
    [Datum |-> row.Datum, A |-> row.A, B |-> row.B,
     PunkteA |-> row.PunkteA, PunkteB |-> row.PunkteB]

\* lines 313-316: the rows of pending the current player has yet to confirm
to_confirm(pending_df, player) ==
    {i \in 1..Len(pending_df) :
        \/ pending_df[i].A = player /\ pending_df[i].confA = FALSE
        \/ pending_df[i].B = player /\ pending_df[i].confB = FALSE}

\* lines 320-327, 347: one Bestaetigen/Ablehnen pair per row of to_confirm, keyed by idx
Rendered(pending_df, player) ==
    [i \in to_confirm(pending_df, player) |-> pending_df[i].Datum]

\* Mutant: the two flags of the new row in the wrong order.
NewPending_FlagsSwapped(ts_now, reporter, b, pa, pb) ==
    [Datum |-> ts_now, A |-> reporter, B |-> b, PunkteA |-> pa, PunkteB |-> pb,
     confA |-> FALSE, confB |-> TRUE]

\* Mutant: the opponent stored as A, the reporter as B.
NewPending_OpponentFirst(ts_now, reporter, b, pa, pb) ==
    [Datum |-> ts_now, A |-> b, B |-> reporter, PunkteA |-> pa, PunkteB |-> pb,
     confA |-> TRUE, confB |-> FALSE]

\* lines 302-306: the row appended by "Match speichern"
NewPending(ts_now, reporter, b, pa, pb) ==
    [Datum |-> ts_now, A |-> reporter, B |-> b, PunkteA |-> pa, PunkteB |-> pb,
     confA |-> TRUE, confB |-> FALSE]

\* line 194: the row appended by "Registrieren"
NewPlayer(reg_name) ==
    [Name |-> reg_name, ELO |-> StartElo, Siege |-> 0, Niederlagen |-> 0,
     Spiele |-> 0, Pin |-> "hash"]

\* lines 328-331
SetFlag(row, player) ==
    IF row.A = player THEN [row EXCEPT !.confA = TRUE] ELSE [row EXCEPT !.confB = TRUE]

\* The stores before the first run: no file exists, every table loads empty.
Fresh ==
    /\ playersFile = <<>>
    /\ matchesFile = <<>>
    /\ pendingFile = <<>>
    /\ pc = [s \in Sessions |-> "idle"]
    /\ event = [s \in Sessions |-> NoEvent]
    /\ players = [s \in Sessions |-> <<>>]
    /\ matches = [s \in Sessions |-> <<>>]
    /\ pending = [s \in Sessions |-> <<>>]
    /\ logged_in = [s \in Sessions |-> FALSE]
    /\ current_player = [s \in Sessions |-> ""]
    /\ view = [s \in Sessions |-> NoView]
    /\ clock = 0
    /\ promoted = {}
    /\ rejected = {}
    /\ loaded = [s \in Sessions |-> NoTables]
    /\ consent = {}

NoHarness ==
    /\ arg_players = <<>>
    /\ arg_matches = <<>>
    /\ res_players = <<>>
    /\ res_history = <<>>

Init == Fresh /\ NoHarness /\ serial = FALSE

InitSerial == Fresh /\ NoHarness /\ serial = TRUE

\* A button press starts a script run with that press as its event.
Press(s, e) ==
    /\ pc[s] = "idle"
    /\ serial => \A t \in Sessions : pc[t] = "idle"
    /\ pc' = [pc EXCEPT ![s] = "L132"]
    /\ event' = [event EXCEPT ![s] = e]
    /\ UNCHANGED <<playersFile, matchesFile, pendingFile, players, matches, pending,
                   logged_in, current_player, view, clock, promoted, consent>>
    /\ UNCHANGED <<loaded, rejected, serial, harness>>

PressRegister(s, reg_name) ==
    /\ ~logged_in[s]
    /\ Press(s, [NoEvent EXCEPT !.kind = "register", !.name = reg_name])

PressLogin(s, login_name) ==
    /\ ~logged_in[s]
    /\ Press(s, [NoEvent EXCEPT !.kind = "login", !.name = login_name])

\* The number of submissions is bounded: those stamped plus those under way.
PressSubmit(s, pa, pb) ==
    /\ logged_in[s]
    /\ clock + Cardinality({t \in Sessions : event[t].kind = "submit"}) < MaxSubmits
    /\ Press(s, [NoEvent EXCEPT !.kind = "submit", !.pa = pa, !.pb = pb])

\* lines 294-296: changing an input widget re-runs the script, no button pressed
ChangeInput(s) ==
    /\ logged_in[s]
    /\ Press(s, NoEvent)

PressConfirm(s, idx) ==
    /\ logged_in[s]
    /\ idx \in DOMAIN view[s]
    /\ Press(s, [NoEvent EXCEPT !.kind = "confirm", !.idx = idx])

PressReject(s, idx) ==
    /\ logged_in[s]
    /\ idx \in DOMAIN view[s]
    /\ Press(s, [NoEvent EXCEPT !.kind = "reject", !.idx = idx])

\* line 132
LoadPlayers(s) ==
    /\ pc[s] = "L132"
    /\ players' = [players EXCEPT ![s] = playersFile]
    /\ pc' = [pc EXCEPT ![s] = "L137"]
    /\ UNCHANGED <<playersFile, matchesFile, pendingFile, event, matches, pending,
                   logged_in, current_player, view, clock, promoted, consent>>
    /\ UNCHANGED <<loaded, rejected, serial, harness>>

\* line 137
LoadMatches(s) ==
    /\ pc[s] = "L137"
    /\ matches' = [matches EXCEPT ![s] = matchesFile]
    /\ pc' = [pc EXCEPT ![s] = "L138"]
    /\ UNCHANGED <<playersFile, matchesFile, pendingFile, event, players, pending,
                   logged_in, current_player, view, clock, promoted, consent>>
    /\ UNCHANGED <<loaded, rejected, serial, harness>>

\* line 138
LoadPending(s) ==
    /\ pc[s] = "L138"
    /\ pending' = [pending EXCEPT ![s] = pendingFile]
    /\ pc' = [pc EXCEPT ![s] = "L147"]
    /\ UNCHANGED <<playersFile, matchesFile, pendingFile, event, players, matches,
                   logged_in, current_player, view, clock, promoted, consent>>
    /\ UNCHANGED <<loaded, rejected, serial, harness>>

\* The run ends (script end or st.stop()): the page shows the buttons rendered
\* from the run's pending table; the module-level tables are discarded.
EndRun(s, pending_df, is_logged_in, player) ==
    /\ pc' = [pc EXCEPT ![s] = "idle"]
    /\ event' = [event EXCEPT ![s] = NoEvent]
    /\ view' = [view EXCEPT ![s] = IF is_logged_in THEN Rendered(pending_df, player)
                                   ELSE NoView]
    /\ players' = [players EXCEPT ![s] = <<>>]
    /\ matches' = [matches EXCEPT ![s] = <<>>]
    /\ pending' = [pending EXCEPT ![s] = <<>>]
    /\ loaded' = [loaded EXCEPT ![s] = NoTables]

\* st.rerun(): the script starts over with no button pressed.
Rerun(s) ==
    /\ pc' = [pc EXCEPT ![s] = "L132"]
    /\ event' = [event EXCEPT ![s] = NoEvent]
    /\ players' = [players EXCEPT ![s] = <<>>]
    /\ matches' = [matches EXCEPT ![s] = <<>>]
    /\ pending' = [pending EXCEPT ![s] = <<>>]
    /\ loaded' = [loaded EXCEPT ![s] = NoTables]

\* A run no button started (after st.rerun() or an input change): lines 147-394
\* only render.
Render(s) ==
    /\ pc[s] = "L147"
    /\ event[s].kind = "none"
    /\ EndRun(s, pending[s], logged_in[s], current_player[s])
    /\ UNCHANGED <<playersFile, matchesFile, pendingFile, logged_in, current_player,
                   clock, promoted, consent>>
    /\ UNCHANGED <<rejected, serial, harness>>

\* lines 186-197, up to the write of line 195
RegisterHandler(s) ==
    /\ pc[s] = "L147"
    /\ event[s].kind = "register"
    /\ IF event[s].name \in NamesOf(players[s])
       THEN \* "Spieler existiert bereits.", then st.stop() at line 218
            /\ EndRun(s, pending[s], FALSE, "")
       ELSE /\ players' = [players EXCEPT ![s] = Append(players[s], NewPlayer(event[s].name))]
            /\ loaded' = [loaded EXCEPT ![s] = Tables(s)]
            /\ pc' = [pc EXCEPT ![s] = "L195"]
            /\ UNCHANGED <<event, matches, pending, view>>
    /\ UNCHANGED <<playersFile, matchesFile, pendingFile, logged_in, current_player,
                   clock, promoted, consent>>
    /\ UNCHANGED <<rejected, serial, harness>>

\* line 195, then st.rerun()
SaveRegistered(s) ==
    /\ pc[s] = "L195"
    /\ playersFile' = players[s]
    /\ Rerun(s)
    /\ UNCHANGED <<matchesFile, pendingFile, logged_in, current_player, view,
                   clock, promoted, consent>>
    /\ UNCHANGED <<rejected, serial, harness>>

\* lines 163-180 with the PIN that check_pin accepts; a stored PIN that is not
\* a bcrypt hash is replaced by its hash and the roster written (lines 173-175).
LoginHandler(s) ==
    /\ pc[s] = "L147"
    /\ event[s].kind = "login"
    /\ IF event[s].name \in NamesOf(players[s])
       THEN /\ logged_in' = [logged_in EXCEPT ![s] = TRUE]
            /\ current_player' = [current_player EXCEPT ![s] = event[s].name]
            /\ playersFile' =
                  IF FirstRow(players[s], event[s].name).Pin = "hash" THEN playersFile
                  ELSE [i \in 1..Len(players[s]) |->
                           IF players[s][i].Name = event[s].name
                           THEN [players[s][i] EXCEPT !.Pin = "hash"]
                           ELSE players[s][i]]
            /\ Rerun(s)
            /\ UNCHANGED view
       ELSE \* the selectbox does not offer the name
            /\ EndRun(s, pending[s], FALSE, "")
            /\ UNCHANGED <<playersFile, logged_in, current_player>>
    /\ UNCHANGED <<matchesFile, pendingFile, clock, promoted, consent>>
    /\ UNCHANGED <<rejected, serial, harness>>

\* line 295: the opponents the selectbox offers
Opponents(players_df, player) == NamesOf(players_df) \ {player}

\* lines 290-306, up to the write of line 307
SubmitHandler(s, b) ==
    /\ pc[s] = "L147"
    /\ event[s].kind = "submit"
    /\ IF Len(players[s]) < 2
       THEN b = ""
       ELSE b \in Opponents(players[s], current_player[s])
    /\ IF Len(players[s]) < 2 \/ current_player[s] = b
       THEN /\ EndRun(s, pending[s], TRUE, current_player[s])
            /\ UNCHANGED <<clock, consent>>
       ELSE /\ clock' = clock + 1
            /\ pending' = [pending EXCEPT ![s] =
                  Append(pending[s], NewPending(clock + 1, current_player[s], b,
                                                event[s].pa, event[s].pb))]
            /\ consent' = consent \cup {<<clock + 1, current_player[s]>>}
            /\ loaded' = [loaded EXCEPT ![s] = Tables(s)]
            /\ pc' = [pc EXCEPT ![s] = "L307"]
            /\ UNCHANGED <<event, players, matches, view>>
    /\ UNCHANGED <<playersFile, matchesFile, pendingFile, logged_in, current_player,
                   promoted>>
    /\ UNCHANGED <<rejected, serial, harness>>

\* line 307; the script then runs on to its end and renders from its pending table
SaveSubmitted(s) ==
    /\ pc[s] = "L307"
    /\ pendingFile' = pending[s]
    /\ EndRun(s, pending[s], TRUE, current_player[s])
    /\ UNCHANGED <<playersFile, matchesFile, logged_in, current_player, clock,
                   promoted, consent>>
    /\ UNCHANGED <<rejected, serial, harness>>

\* lines 327-340: the button keyed conf_<idx> of this run's to_confirm
ConfirmHandler(s) ==
    /\ pc[s] = "L147"
    /\ event[s].kind = "confirm"
    /\ IF event[s].idx \notin to_confirm(pending[s], current_player[s])
       THEN \* this run renders no button with that key
            /\ EndRun(s, pending[s], TRUE, current_player[s])
            /\ UNCHANGED <<promoted, consent>>
       ELSE LET idx == event[s].idx
                row == SetFlag(pending[s][idx], current_player[s])
                new_matches == Append(matches[s], MatchOf(row))
            IN  /\ consent' = consent \cup {<<row.Datum, current_player[s]>>}
                /\ loaded' = [loaded EXCEPT ![s] = Tables(s)]
                /\ IF row.confA /\ row.confB
                   THEN /\ matches' = [matches EXCEPT ![s] = new_matches]
                        /\ pending' = [pending EXCEPT ![s] = RemoveAt(pending[s], idx)]
                        /\ players' = [players EXCEPT ![s] =
                                          rebuild_players(players[s], new_matches)]
                        /\ promoted' = promoted \cup {row}
                        /\ pc' = [pc EXCEPT ![s] = "L341"]
                   ELSE /\ pending' = [pending EXCEPT ![s] =
                                          [pending[s] EXCEPT ![idx] = row]]
                        /\ pc' = [pc EXCEPT ![s] = "L342"]
                        /\ UNCHANGED <<matches, players, promoted>>
                /\ UNCHANGED <<event, view>>
    /\ UNCHANGED <<playersFile, matchesFile, pendingFile, logged_in, current_player,
                   clock>>
    /\ UNCHANGED <<rejected, serial, harness>>

\* line 341
SaveMatches(s) ==
    /\ pc[s] = "L341"
    /\ matchesFile' = matches[s]
    /\ pc' = [pc EXCEPT ![s] = "L342"]
    /\ UNCHANGED <<playersFile, pendingFile, event, players, matches, pending,
                   logged_in, current_player, view, clock, promoted, consent>>
    /\ UNCHANGED <<loaded, rejected, serial, harness>>

\* line 342
SavePending(s) ==
    /\ pc[s] = "L342"
    /\ pendingFile' = pending[s]
    /\ pc' = [pc EXCEPT ![s] = "L343"]
    /\ UNCHANGED <<playersFile, matchesFile, event, players, matches, pending,
                   logged_in, current_player, view, clock, promoted, consent>>
    /\ UNCHANGED <<loaded, rejected, serial, harness>>

\* line 343, then st.rerun()
SavePlayers(s) ==
    /\ pc[s] = "L343"
    /\ playersFile' = players[s]
    /\ Rerun(s)
    /\ UNCHANGED <<matchesFile, pendingFile, logged_in, current_player, view,
                   clock, promoted, consent>>
    /\ UNCHANGED <<rejected, serial, harness>>

\* lines 347-349: the button keyed rej_<idx> of this run's to_confirm
RejectHandler(s) ==
    /\ pc[s] = "L147"
    /\ event[s].kind = "reject"
    /\ IF event[s].idx \notin to_confirm(pending[s], current_player[s])
       THEN \* this run renders no button with that key
            /\ EndRun(s, pending[s], TRUE, current_player[s])
            /\ UNCHANGED rejected
       ELSE /\ pending' = [pending EXCEPT ![s] = RemoveAt(pending[s], event[s].idx)]
            /\ rejected' = rejected \cup {<<pending[s][event[s].idx], current_player[s]>>}
            /\ loaded' = [loaded EXCEPT ![s] = Tables(s)]
            /\ pc' = [pc EXCEPT ![s] = "L350"]
            /\ UNCHANGED <<event, players, matches, view>>
    /\ UNCHANGED <<playersFile, matchesFile, pendingFile, logged_in, current_player,
                   clock, promoted, consent>>
    /\ UNCHANGED <<serial, harness>>

\* line 350, then st.rerun()
SaveRejected(s) ==
    /\ pc[s] = "L350"
    /\ pendingFile' = pending[s]
    /\ Rerun(s)
    /\ UNCHANGED <<playersFile, matchesFile, logged_in, current_player, view,
                   clock, promoted, consent>>
    /\ UNCHANGED <<rejected, serial, harness>>

\* Every step a session can take.
Step(s) ==
    \/ \E reg_name \in RegNames : PressRegister(s, reg_name)
    \/ \E login_name \in RegNames : PressLogin(s, login_name)
    \/ \E sc \in ScoreChoices : PressSubmit(s, sc[1], sc[2])
    \/ ChangeInput(s)
    \/ \E idx \in DOMAIN view[s] : PressConfirm(s, idx)
    \/ \E idx \in DOMAIN view[s] : PressReject(s, idx)
    \/ LoadPlayers(s)
    \/ LoadMatches(s)
    \/ LoadPending(s)
    \/ Render(s)
    \/ RegisterHandler(s)
    \/ SaveRegistered(s)
    \/ LoginHandler(s)
    \/ \E b \in RegNames \cup {""} : SubmitHandler(s, b)
    \/ SaveSubmitted(s)
    \/ ConfirmHandler(s)
    \/ SaveMatches(s)
    \/ SavePending(s)
    \/ SavePlayers(s)
    \/ RejectHandler(s)
    \/ SaveRejected(s)

\* Sessions run concurrently, interleaved at their file reads and writes.
Next == \E s \in Sessions : Step(s)

Spec == Init /\ [][Next]_vars

\* Every script run finishes before another session starts one.
SpecSerial == InitSerial /\ [][Next]_vars

\* ------------------------------------------------- the rating engine alone
\* rebuild_players and elo_history applied to bounded rosters and histories.
EngineNames == {AllNames[i] : i \in 1..NumNames}

EngineScores == {<<11, 8>>, <<8, 11>>, <<11, 11>>}

MatchRows ==
    {[Datum |-> d, A |-> a, B |-> b, PunkteA |-> sc[1], PunkteB |-> sc[2]] :
        d \in 1..MaxDatum, a \in EngineNames, b \in EngineNames, sc \in EngineScores}

\* submit never stores a match of a player against themselves (line 295)
Histories ==
    UNION {[1..n -> {m \in MatchRows : m.A # m.B}] : n \in 0..MaxHistory}

\* A stored row as a rebuild after one won match leaves it.
StaleRow(name) == [NewPlayer(name) EXCEPT !.ELO = 1216, !.Siege = 1, !.Spiele = 1]

RosterOf(names, stale) ==
    LET ordered == SelectSeq(SubSeq(AllNames, 1, NumNames), LAMBDA n : n \in names)
    IN  [i \in 1..Len(ordered) |->
            IF stale THEN StaleRow(ordered[i]) ELSE NewPlayer(ordered[i])]

Rosters == {RosterOf(names, stale) : names \in SUBSET EngineNames, stale \in BOOLEAN}

TakesPart(player, matches_df) ==
    \E i \in 1..Len(matches_df) : matches_df[i].A = player \/ matches_df[i].B = player

InitEngine ==
    /\ Fresh
    /\ serial = FALSE
    /\ arg_players \in Rosters
    /\ arg_matches \in Histories
    /\ res_players = <<>>
    /\ res_history = <<>>

workflow == <<playersFile, matchesFile, pendingFile, pc, event, players, matches,
              pending, logged_in, current_player, view, clock, promoted, rejected,
              loaded, consent, serial>>

\* line 340: players = rebuild_players(players, matches)
CallRebuild ==
    /\ res_players = <<>>
    /\ res_players' = <<rebuild_players(arg_players, arg_matches)>>
    /\ UNCHANGED <<arg_players, arg_matches, res_history, workflow>>

\* lines 367-371: hist = elo_history(current_player, matches), for a player with matches
CallHistory(player) ==
    /\ res_history = <<>>
    /\ TakesPart(player, arg_matches)
    /\ res_history' = [n \in (DOMAIN res_history) \cup {player} |->
                          IF n = player THEN elo_history(player, arg_matches)
                          ELSE res_history[n]]
    /\ UNCHANGED <<arg_players, arg_matches, res_players, workflow>>

NextEngine ==
    \/ CallRebuild
    \/ \E player \in EngineNames : CallHistory(player)

SpecEngine == InitEngine /\ [][NextEngine]_vars

\* --------------------------------------------- two pages over one pending table
\* The state after MaxSubmits records were submitted between the registered
\* players by sessions that have since logged out (lines 212-215), with every
\* session of Sessions logged in and showing the page rendered from that table.
StalePendings ==
    {[d \in 1..MaxSubmits |-> NewPending(d, ab[d][1], ab[d][2], 11, 8)] :
        ab \in [1..MaxSubmits -> {p \in RegNames \X RegNames : p[1] # p[2]}]}

InitStale ==
    /\ playersFile = RosterOf(RegNames, FALSE)
    /\ matchesFile = <<>>
    /\ pendingFile \in StalePendings
    /\ pc = [s \in Sessions |-> "idle"]
    /\ event = [s \in Sessions |-> NoEvent]
    /\ players = [s \in Sessions |-> <<>>]
    /\ matches = [s \in Sessions |-> <<>>]
    /\ pending = [s \in Sessions |-> <<>>]
    /\ logged_in = [s \in Sessions |-> TRUE]
    /\ current_player \in [Sessions -> RegNames]
    /\ view = [s \in Sessions |-> Rendered(pendingFile, current_player[s])]
    /\ clock = MaxSubmits
    /\ promoted = {}
    /\ rejected = {}
    /\ loaded = [s \in Sessions |-> NoTables]
    /\ consent = {<<d, pendingFile[d].A>> : d \in 1..MaxSubmits}
    /\ serial = FALSE
    /\ NoHarness

\* The steps of a logged-in session that confirms, rejects or refreshes.
StepStale(s) ==
    \/ ChangeInput(s)
    \/ \E idx \in DOMAIN view[s] : PressConfirm(s, idx)
    \/ \E idx \in DOMAIN view[s] : PressReject(s, idx)
    \/ LoadPlayers(s)
    \/ LoadMatches(s)
    \/ LoadPending(s)
    \/ Render(s)
    \/ ConfirmHandler(s)
    \/ SaveMatches(s)
    \/ SavePending(s)
    \/ SavePlayers(s)
    \/ RejectHandler(s)
    \/ SaveRejected(s)

NextStale == \E s \in Sessions : StepStale(s)

SpecStale == InitStale /\ [][NextStale]_vars

\* ================================================================ claims
AllIdle == \A s \in Sessions : pc[s] = "idle"

Stored(name) == FirstRow(playersFile, name)

\* The confirmed store's rows that carry the record stamped datum.
EntriesOf(datum) == {i \in 1..Len(matchesFile) : matchesFile[i].Datum = datum}

\* The promoted records that name the player.
PromotedWith(name) == {row.Datum : row \in {r \in promoted : r.A = name \/ r.B = name}}

BothConsented(row) ==
    /\ <<row.Datum, row.A>> \in consent
    /\ <<row.Datum, row.B>> \in consent

\* C1: every record of the confirmed match store was promoted from a pending
\* row whose confA and confB were both true at promotion, each participant
\* having set their flag from their own session; and no stored player has a
\* game counted without such a promotion.
C1_DualConfirmation ==
    /\ \A i \in 1..Len(matchesFile) :
          /\ \E row \in promoted :
                MatchOf(row) = matchesFile[i] /\ row.confA /\ row.confB
          /\ BothConsented(matchesFile[i])
    /\ \A i \in 1..Len(playersFile) :
          playersFile[i].Spiele > 0 =>
             \E row \in promoted :
                /\ playersFile[i].Name \in {row.A, row.B}
                /\ row.confA /\ row.confB /\ BothConsented(row)

C1_Witness ==
    /\ matchesFile # <<>>
    /\ \E i \in 1..Len(playersFile) : playersFile[i].Spiele > 0

\* C2: promotion is atomic for the stores: in no state is a match both in the
\* pending store and in the confirmed store, and the player store never counts
\* for a player more games than the confirmed store holds matches of that player.
C2_AtomicPromotion ==
    /\ \A i \in 1..Len(pendingFile) : \A j \in 1..Len(matchesFile) :
          MatchOf(pendingFile[i]) # matchesFile[j]
    /\ \A i \in 1..Len(playersFile) :
          playersFile[i].Spiele <=
             Cardinality({j \in 1..Len(matchesFile) :
                             playersFile[i].Name \in {matchesFile[j].A, matchesFile[j].B}})

\* C3: once two different pending matches have been confirmed and every run
\* has finished, the confirmed store holds both matches and the stored roster
\* is the rebuild over that store.
C3_NoLostUpdate ==
    (AllIdle /\ Cardinality({row.Datum : row \in promoted}) = 2) =>
        /\ \A row \in promoted : EntriesOf(row.Datum) # {}
        /\ playersFile = rebuild_players(playersFile, matchesFile)

\* C5: a pending record is promoted at most once: the confirmed store never
\* holds two entries for one record, and no stored player has more games than
\* promoted records that name them.
C5_PromotedOnce ==
    /\ \A i \in 1..Len(matchesFile) : Cardinality(EntriesOf(matchesFile[i].Datum)) <= 1
    /\ \A i \in 1..Len(playersFile) :
          playersFile[i].Spiele <= Cardinality(PromotedWith(playersFile[i].Name))

\* C8: every player of the stored roster has Siege + Niederlagen = Spiele, all
\* three non-negative.
C8_WinsPlusLosses ==
    \A i \in 1..Len(playersFile) :
        /\ playersFile[i].Siege >= 0
        /\ playersFile[i].Niederlagen >= 0
        /\ playersFile[i].Spiele >= 0
        /\ playersFile[i].Siege + playersFile[i].Niederlagen = playersFile[i].Spiele

C8_Witness ==
    \E i \in 1..Len(playersFile) :
        playersFile[i].Spiele = 2 /\ playersFile[i].Siege = 1

\* With runs one at a time, a handler starts from the stores as they are.
LoadedIsStored ==
    \A s \in Sessions :
        pc[s] = "L147" =>
            players[s] = playersFile /\ matches[s] = matchesFile /\ pending[s] = pendingFile

\* The last write of a run of the confirm handler that promoted row idx.
C9_LastWrite(s) ==
    LET idx == event[s].idx
        before == loaded[s]
        row == before.pending[idx]
        entry == [Datum |-> row.Datum, A |-> row.A, B |-> row.B,
                  PunkteA |-> row.PunkteA, PunkteB |-> row.PunkteB]
    IN  (/\ pc[s] = "L343"
         /\ pc'[s] # "L343"
         /\ event[s].kind = "confirm"
         /\ row.confA
         /\ row.B = current_player[s])
        =>
        /\ \A i \in 1..Len(pendingFile') : pendingFile'[i].Datum # row.Datum
        /\ Len(pendingFile') = Len(before.pending) - 1
        /\ matchesFile' = before.matches \o <<entry>>
        /\ playersFile' = rebuild_players(before.players, matchesFile')
        /\ (before.matches = <<>> /\ row.PunkteA = 11 /\ row.PunkteB = 8) =>
              /\ FirstRow(playersFile', row.A) =
                    [NewPlayer(row.A) EXCEPT !.ELO = 1216, !.Siege = 1, !.Spiele = 1]
              /\ FirstRow(playersFile', row.B) =
                    [NewPlayer(row.B) EXCEPT !.ELO = 1184, !.Niederlagen = 1, !.Spiele = 1]

\* C9: when the opponent confirms a pending record whose reporter flag is
\* true, the run ends with the record gone from the pending store, the
\* confirmed store longer by exactly that record's entry and the stored roster
\* equal to the rebuild over the new history (1216 / 1184 after a first 11:8).
C9_ConfirmPromotes == [](LoadedIsStored) /\ [][\A s \in Sessions : C9_LastWrite(s)]_vars

C9_Witness ==
    /\ serial
    /\ \E s \in Sessions : pc[s] = "L132" /\ logged_in[s]
    /\ pendingFile = <<>>
    /\ Len(matchesFile) = 1
    /\ matchesFile[1].PunkteA = 11
    /\ Stored(matchesFile[1].A).ELO = 1216
    /\ Stored(matchesFile[1].B).ELO = 1184

\* The write of a run of the reject handler on row idx.
C10_Write(s) ==
    LET idx == event[s].idx
        before == loaded[s]
    IN  (pc[s] = "L350" /\ pc'[s] # "L350")
        =>
        /\ Len(pendingFile') = Len(before.pending) - 1
        /\ \A j \in 1..Len(pendingFile') :
              pendingFile'[j] = IF j < idx THEN before.pending[j] ELSE before.pending[j + 1]
        /\ matchesFile' = before.matches
        /\ playersFile' = before.players

\* C10: reject removes exactly the pending row its button stands for, keeps
\* every other pending row, and leaves the confirmed store and the stored
\* roster as they were.
C10_RejectFrame == [](LoadedIsStored) /\ [][\A s \in Sessions : C10_Write(s)]_vars

C10_Witness ==
    /\ serial
    /\ \E s \in Sessions : pc[s] = "L132" /\ logged_in[s]
    /\ clock = 2
    /\ Len(pendingFile) = 1
    /\ pendingFile[1].Datum = 2
    /\ matchesFile = <<>>

\* ----------------------------------------------- claims on the rating engine
Rebuilt == res_players # <<>>

Known(row) == row.A \in NamesOf(arg_players) /\ row.B \in NamesOf(arg_players)

\* C4: for a roster player who takes part in the history, the rating of the
\* last entry of elo_history equals the rating rebuild_players gives the player.
C4_HistoryEndsAtRebuild ==
    \A player \in DOMAIN res_history :
        (Rebuilt /\ player \in NamesOf(arg_players) /\ TakesPart(player, arg_matches)) =>
            res_history[player][Len(res_history[player])][2]
                = FirstRow(res_players[1], player).ELO

\* Every storage order of the same rows.
Reorderings(df) ==
    {[i \in 1..Len(df) |-> df[f[i]]] :
        f \in {g \in [1..Len(df) -> 1..Len(df)] :
                  \A i, j \in 1..Len(df) : i # j => g[i] # g[j]}}

DistinctDatum(df) == \A i, j \in 1..Len(df) : i # j => df[i].Datum # df[j].Datum

\* C6 as stated: rebuild_players gives the same roster for every storage
\* order of the same match rows, rows that share a timestamp included.
C6_AnyOrder ==
    Rebuilt =>
        \A df \in Reorderings(arg_matches) :
            rebuild_players(arg_players, df) = res_players[1]

\* C6 amended: rebuild_players gives the same roster for every storage order
\* of the same match rows when no two rows share a timestamp.
C6_AnyOrderDistinctDatum ==
    (Rebuilt /\ DistinctDatum(arg_matches)) =>
        \A df \in Reorderings(arg_matches) :
            rebuild_players(arg_players, df) = res_players[1]

\* Two rows stored latest first whose replay in storage order ends elsewhere.
C6_Witness ==
    /\ Rebuilt
    /\ Len(arg_matches) = 2
    /\ arg_matches[1].Datum > arg_matches[2].Datum
    /\ Replay(ResetStats(arg_players), arg_matches) # res_players[1]

\* The history without the matches that name a player outside the roster.
WithoutAbsent(players_df, matches_df) ==
    SelectSeq(matches_df, LAMBDA row : row.A \in NamesOf(players_df)
                                       /\ row.B \in NamesOf(players_df))

\* C7: rebuild_players gives the roster it gives for the history with every
\* match that names a player outside the roster removed.
C7_SkipsAbsent ==
    Rebuilt =>
        res_players[1] = rebuild_players(arg_players, WithoutAbsent(arg_players, arg_matches))

\* A kept match after a skipped one that names one of its players.
C7_Witness ==
    /\ Rebuilt
    /\ Len(arg_matches) = 2
    /\ ~Known(arg_matches[1])
    /\ Known(arg_matches[2])
    /\ arg_matches[1].A = arg_matches[2].A
    /\ arg_matches[1].Datum < arg_matches[2].Datum

\* ------------------------------------------------------ submit (lines 290-308)
\* The write of a submit run: the loaded pending table plus one new row.
C11_Write(s) ==
    LET before == loaded[s]
        row == pendingFile'[Len(pendingFile')]
    IN  (pc[s] = "L307" /\ pc'[s] # "L307")
        =>
        /\ pendingFile' = Append(before.pending, row)
        /\ row.A = current_player[s]
        /\ row.B # current_player[s]
        /\ row.PunkteA = event[s].pa
        /\ row.PunkteB = event[s].pb
        /\ row.confA = TRUE
        /\ row.confB = FALSE
        /\ matchesFile' = before.matches
        /\ playersFile' = before.players

\* A submit run that stores no record ends without a write.
C11_Fails(s) ==
    (pc[s] = "L147" /\ event[s].kind = "submit" /\ pc'[s] = "idle")
    => UNCHANGED <<playersFile, matchesFile, pendingFile>>

NoSelfPending == \A i \in 1..Len(pendingFile) : pendingFile[i].A # pendingFile[i].B

\* C11: a submit run either stores nothing and writes no store, and never
\* stores a record of a player against themselves; or it adds exactly one
\* pending record with the reporter as A, confA true and confB false, and
\* leaves the confirmed store and the roster as they were.
C11_SubmitContract ==
    /\ [](LoadedIsStored /\ NoSelfPending)
    /\ [][\A s \in Sessions : C11_Write(s) /\ C11_Fails(s)]_vars

\* Two records stored by two different reporters, none confirmed yet.
C11_Witness ==
    /\ serial
    /\ AllIdle
    /\ Len(pendingFile) = 2
    /\ pendingFile[1].A # pendingFile[2].A
    /\ matchesFile = <<>>

\* ------------------------------------------- life cycle of a pending record
\* The timestamps of the records a confirm handler promoted or a reject
\* handler dropped.
ResolvedDatums == {row.Datum : row \in promoted} \cup {r[1].Datum : r \in rejected}

InPending(datum) == \E i \in 1..Len(pendingFile) : pendingFile[i].Datum = datum

\* The run of s has promoted or dropped the record and has yet to write the
\* pending store.
Resolving(s, datum) ==
    /\ pc[s] \in {"L341", "L342", "L350"}
    /\ loaded[s].pending[event[s].idx].Datum = datum

\* The record stamped datum has been written to the pending store by its
\* submit run.
Submitted(datum) ==
    /\ datum \in 1..clock
    /\ \A s \in Sessions :
          pc[s] = "L307" => pending[s][Len(pending[s])].Datum # datum

\* C12: a record that was promoted or rejected is not in the pending store
\* in any state after the resolving run has written that store.
C12_Terminal ==
    \A datum \in ResolvedDatums :
        (\A s \in Sessions : ~Resolving(s, datum)) => ~InPending(datum)

\* C13: a record written to the pending store is in that store until it is
\* promoted or rejected, and it is never rejected by its reporter.
C13_StaysPending ==
    /\ \A datum \in 1..clock :
          Submitted(datum) => (InPending(datum) \/ datum \in ResolvedDatums)
    /\ \A r \in rejected : r[2] # r[1].A

\* ------------------------------------------------------------- the roster
\* C14: no step removes a name from the stored roster (every name in it was
\* saved by a registration), so a registered player is in the store in every
\* later state.
C14_NeverRemoved == [][NamesOf(playersFile) \subseteq NamesOf(playersFile')]_vars

\* ------------------------------------------- buttons keyed by row index
\* The run of s handles a Bestaetigen/Ablehnen press made on a page that
\* showed, under that key, a record since promoted or rejected and no longer
\* in the table the run loaded.
PressedResolved(s) ==
    /\ pc[s] = "L147"
    /\ event[s].kind \in {"confirm", "reject"}
    /\ view[s][event[s].idx] \in ResolvedDatums
    /\ \A i \in 1..Len(pending[s]) : pending[s][i].Datum # view[s][event[s].idx]

FreshRoster(players_df) == [i \in 1..Len(players_df) |-> NewPlayer(players_df[i].Name)]

\* C16: rebuild_players gives what it gives for the roster of the same names
\* with ratings 1200 and counters 0 (the stored ratings and counters play no
\* part); applied to its own result with the same history it returns that
\* result; and for an empty history every player has 1200 and counters 0.
C16_FullRecompute ==
    Rebuilt =>
        /\ res_players[1] = rebuild_players(FreshRoster(arg_players), arg_matches)
        /\ rebuild_players(res_players[1], arg_matches) = res_players[1]
        /\ arg_matches = <<>> => res_players[1] = FreshRoster(arg_players)

\* A roster with stored ratings and counters, rebuilt over two counted matches.
C16_Witness ==
    /\ Rebuilt
    /\ Len(arg_players) >= 2
    /\ arg_players[1].ELO = 1216
    /\ arg_players[1].Spiele = 1
    /\ Len(arg_matches) = 2
    /\ Known(arg_matches[1])
    /\ Known(arg_matches[2])

\* The roster after the first k matches in replay order.
After(k) == rebuild_players(arg_players, SubSeq(sort_values(arg_matches), 1, k))

\* The k-th match in replay order changes the roster as one match should.
CountedOnce(k) ==
    LET row == sort_values(arg_matches)[k]
        winner == IF row.PunkteA > row.PunkteB THEN row.A ELSE row.B
        loser == IF row.PunkteA > row.PunkteB THEN row.B ELSE row.A
        preA == FirstRow(After(k - 1), row.A)
        preB == FirstRow(After(k - 1), row.B)
        postA == FirstRow(After(k), row.A)
        postB == FirstRow(After(k), row.B)
    IN  /\ postA.ELO = calc_elo(preA.ELO, preB.ELO, IF winner = row.A THEN 1 ELSE 0)
        /\ postB.ELO = calc_elo(preB.ELO, preA.ELO, IF winner = row.B THEN 1 ELSE 0)
        /\ postA.Spiele = preA.Spiele + 1
        /\ postB.Spiele = preB.Spiele + 1
        /\ FirstRow(After(k), winner).Siege = FirstRow(After(k - 1), winner).Siege + 1
        /\ FirstRow(After(k), winner).Niederlagen = FirstRow(After(k - 1), winner).Niederlagen
        /\ FirstRow(After(k), loser).Niederlagen = FirstRow(After(k - 1), loser).Niederlagen + 1
        /\ FirstRow(After(k), loser).Siege = FirstRow(After(k - 1), loser).Siege
        /\ \A i \in 1..Len(arg_players) :
              arg_players[i].Name \notin {row.A, row.B} => After(k)[i] = After(k - 1)[i]

\* C17: every replayed match gives both players the ratings calc_elo yields
\* from the two ratings held before that match, adds 1 to the games of both,
\* 1 to the wins of the winner and 1 to the losses of the loser.
C17_PreMatchRatings ==
    Rebuilt =>
        /\ res_players[1] = After(Len(arg_matches))
        /\ \A k \in 1..Len(arg_matches) :
              Known(sort_values(arg_matches)[k]) => CountedOnce(k)

\* A return match: the second match starts from ratings the first one moved.
C17_Witness ==
    /\ Rebuilt
    /\ Len(arg_matches) = 2
    /\ arg_matches[1].Datum < arg_matches[2].Datum
    /\ Known(arg_matches[1])
    /\ arg_matches[1].A = arg_matches[2].B
    /\ arg_matches[1].B = arg_matches[2].A
    /\ arg_matches[1].PunkteA > arg_matches[1].PunkteB

RECURSIVE SumOf(_, _)
SumOf(players_df, column) ==
    IF players_df = <<>> THEN 0
    ELSE players_df[1][column] + SumOf(Tail(players_df), column)

\* C20: in the rebuilt roster the wins add up to the losses, and the games
\* add up to twice the number of matches whose two players are in the roster.
C20_Totals ==
    Rebuilt =>
        /\ SumOf(res_players[1], "Siege") = SumOf(res_players[1], "Niederlagen")
        /\ SumOf(res_players[1], "Spiele") =
              2 * Cardinality({i \in 1..Len(arg_matches) : Known(arg_matches[i])})

\* One counted match and one skipped for a player outside the roster.
C20_Witness ==
    /\ Rebuilt
    /\ Len(arg_players) = 2
    /\ Len(arg_matches) = 2
    /\ Known(arg_matches[1])
    /\ ~Known(arg_matches[2])
    /\ SumOf(res_players[1], "Spiele") = 2

\* ------------------------------------------------------- equal point tallies
\* The last write of a confirm run that promoted a record with equal points,
\* stored by submit as entered.
C18_LastWrite(s) ==
    LET before == loaded[s]
        row == before.pending[event[s].idx]
        hist == Append(before.matches, MatchOf(row))
        sorted == sort_values(hist)
        k == CHOOSE j \in 1..Len(sorted) : sorted[j].Datum = row.Datum
        pre == rebuild_players(before.players, SubSeq(sorted, 1, k - 1))
        post == rebuild_players(before.players, SubSeq(sorted, 1, k))
        preA == FirstRow(pre, row.A)
        preB == FirstRow(pre, row.B)
        postA == FirstRow(post, row.A)
        postB == FirstRow(post, row.B)
    IN  (/\ pc[s] = "L343"
         /\ pc'[s] # "L343"
         /\ event[s].kind = "confirm"
         /\ row.confA
         /\ row.B = current_player[s]
         /\ row.PunkteA = row.PunkteB)
        =>
        /\ matchesFile' = hist
        /\ playersFile' = rebuild_players(before.players, hist)
        /\ postA.Niederlagen = preA.Niederlagen + 1
        /\ postA.Siege = preA.Siege
        /\ postB.Siege = preB.Siege + 1
        /\ postB.Niederlagen = preB.Niederlagen
        /\ postA.ELO = calc_elo(preA.ELO, preB.ELO, 0)
        /\ postB.ELO = calc_elo(preB.ELO, preA.ELO, 1)
        /\ before.matches = <<>> =>
              /\ FirstRow(playersFile', row.A) =
                    [NewPlayer(row.A) EXCEPT !.ELO = 1184, !.Niederlagen = 1, !.Spiele = 1]
              /\ FirstRow(playersFile', row.B) =
                    [NewPlayer(row.B) EXCEPT !.ELO = 1216, !.Siege = 1, !.Spiele = 1]

\* C18: a match submitted with equal points is stored as entered and, once
\* confirmed, replayed as a loss for A and a win for B: rebuild_players adds 1
\* to A's losses and to B's wins and applies calc_elo with score 0 for A and
\* 1 for B.
C18_TieIsLossForA == [][\A s \in Sessions : C18_LastWrite(s)]_vars

\* A won a match and then drew the next on points: one win, one loss.
C18_Witness ==
    /\ serial
    /\ AllIdle
    /\ Len(matchesFile) = 2
    /\ matchesFile[1].PunkteA > matchesFile[1].PunkteB
    /\ matchesFile[2].PunkteA = matchesFile[2].PunkteB
    /\ matchesFile[1].A = matchesFile[2].A
    /\ Stored(matchesFile[2].A).Siege = 1
    /\ Stored(matchesFile[2].A).Niederlagen = 1

\* ---------------------------------------------- stored roster and history
\* C19: whenever no script run is under way, the stored roster is the
\* rebuild of itself over the stored confirmed matches.
C19_RosterIsRebuild ==
    AllIdle => playersFile = rebuild_players(playersFile, matchesFile)

=============================================================================
